---- MODULE Spec2Model ----
(***************************************************************************)
(* wgtui: the interface registry (InterfacesMap::refresh, the dump parser  *)
(* and the configuration reconciler), the Display renderings of            *)
(* WgInterface and WgPeer, time_to_english, and the RwLock discipline of   *)
(* the INTERFACES static.                                                  *)
(*                                                                         *)
(* Text is modelled as follows.  The output of `wg show all dump` is the   *)
(* sequence of its newline-terminated lines, each line being the sequence  *)
(* of its tab-separated fields (what split("\t") returns); every field is  *)
(* a string.  A file name of /etc/wireguard is the sequence of its         *)
(* segments, the segment ".conf" standing for every occurrence of that     *)
(* substring, so that contains(".conf") and replace(".conf", "") are       *)
(* computed, not assumed.  An Option is a sequence of length 0 or 1.       *)
(***************************************************************************)
EXTENDS Integers, Sequences, FiniteSets, TLC

VARIABLES
    raw_output,   \* stdout of `wg show all dump`: sequence of lines
    exit_ok,      \* result.status.success()
    dir_ok,       \* fs::read_dir("/etc/wireguard/") is Ok
    conf_dir,     \* the file names read_dir yields
    interfaces,   \* InterfacesMap.interfaces: name -> WgInterface
    proc,         \* "running", "exited" (exit(1)) or "panicked"
    fresh,        \* the last operation was a refresh that stored its map
    dropped,      \* the names that refresh removed from the stored map
    rehidden,     \* the names that refresh kept and whose show_priv it cleared
    now,          \* SystemTime::now() since UNIX_EPOCH, in seconds
    phase,        \* position of the refresh/render/refresh/render sequence
    out1,         \* rendering of every interface after the first refresh
    out2,         \* rendering of every interface after the second refresh
    rw,           \* state of the RwLock around INTERFACES
    pc,           \* per UI caller: what it holds and where it is
    building,     \* per UI caller: refresh's local `interfaces` map
    time_in,      \* argument given to time_to_english
    english       \* Option<String>: what time_to_english returned

vars == <<raw_output, exit_ok, dir_ok, conf_dir, interfaces, proc, fresh, dropped,
          rehidden, now, phase, out1, out2, rw, pc, building, time_in, english>>

envVars == <<raw_output, exit_ok, dir_ok, conf_dir>>
idemVars == <<phase, out1, out2>>
lockVars == <<rw, pc, building>>
timeVars == <<time_in, english>>

(***************************************************************************)
(* Bounds of the model.                                                    *)
(***************************************************************************)
MaxLines == 3      \* lines of a dump given to the parser
MaxSysLines == 2   \* lines of the dump while the registry runs
MaxUnit == 3       \* largest count per unit of time given to time_to_english
MaxTicks == 2      \* clock ticks after the start
NumCallers == 2    \* UI callers contending for the registry

Range(s) == {s[i] : i \in DOMAIN s}

SeqsUpTo(S, n) == UNION {[1..k -> S] : k \in 0..n}

(***************************************************************************)
(* Integer parsing: str::parse::<u16>() and str::parse::<u64>().           *)
(***************************************************************************)
U16Max == 65535

\* The decimal texts used by the model and the value each one denotes;
\* every other text ("x", "maybe", ...) is not a number.
Decimal ==
    [s \in {"0", "7", "007", "100", "1024", "2048", "51820", "51821", "65536"} |->
        CASE s = "0" -> 0
          [] s = "7" -> 7
          [] s = "007" -> 7
          [] s = "100" -> 100
          [] s = "1024" -> 1024
          [] s = "2048" -> 2048
          [] s = "51820" -> 51820
          [] s = "51821" -> 51821
          [] s = "65536" -> 65536]

\* Result<u16, _> as an Option: << >> is Err.
ParseU16(s) ==
    IF s \in DOMAIN Decimal /\ Decimal[s] <= U16Max THEN <<Decimal[s]>> ELSE << >>

\* Result<u64, _>; no text of the model exceeds u64.
ParseU64(s) ==
    IF s \in DOMAIN Decimal THEN <<Decimal[s]>> ELSE << >>

(***************************************************************************)
(* Records.                                                                *)
(***************************************************************************)
DefaultInterface ==
    [enabled |-> FALSE, private_key |-> "", public_key |-> "", listen_port |-> 0,
     fwmark |-> << >>, peers |-> << >>, show_priv |-> FALSE]

\* The WgPeer built by the closure of refresh from the fields x of a line.
MakePeer(x) ==
    [public_key |-> x[2],
     preshared_key |-> IF x[3] = "(none)" THEN << >> ELSE <<x[3]>>,
     endpoint |-> x[4],
     allowed_ips |-> x[5],
     latest_handshake |-> ParseU64(x[6])[1],
     transfer_rx |-> ParseU64(x[7])[1],
     transfer_tx |-> ParseU64(x[8])[1],
     persistent_keepalive |-> (x[9] = "on")]

\* The closure above returns instead of panicking: no index is out of
\* bounds, no expect() fails and the keepalive match is not unreachable!().
PeerBuilds(x) ==
    /\ Len(x) >= 9
    /\ ParseU64(x[6]) # << >>
    /\ ParseU64(x[7]) # << >>
    /\ ParseU64(x[8]) # << >>
    /\ x[9] \in {"on", "off"}

(***************************************************************************)
(* The dump parser.                                                        *)
(***************************************************************************)
\* raw_output.split("\n"): the lines, then the empty piece after the last
\* newline, whose split("\t") is the single empty field.
SplitNewline(raw) == raw \o << <<"">> >>

\* lines.pop()
Pop(s) == IF s = << >> THEN s ELSE SubSeq(s, 1, Len(s) - 1)

\* lines.iter().skip(i + 1)...take_while(|x| line[0] == x[0]), positions
\* here being 1-based: the lines from j on, up to the first whose first
\* field differs from name.
RECURSIVE TakeWhileName(_, _, _)
TakeWhileName(lines, j, name) ==
    IF j > Len(lines) \/ lines[j][1] # name
    THEN << >>
    ELSE <<lines[j]>> \o TakeWhileName(lines, j + 1, name)

\* The alternative reading of the peer collection: every later line that
\* carries the name, wherever it stands.
RECURSIVE FilterName(_, _, _)
FilterName(lines, j, name) ==
    IF j > Len(lines)
    THEN << >>
    ELSE (IF lines[j][1] = name THEN <<lines[j]>> ELSE << >>)
            \o FilterName(lines, j + 1, name)

PeerLines(lines, j, name) == TakeWhileName(lines, j, name)

\* The WgInterface literal of refresh for the header at position i.
MakeInterface(lines, i) ==
    LET line == lines[i]
        run == PeerLines(lines, i + 1, line[1])
    IN [show_priv |-> FALSE,
        enabled |-> TRUE,
        private_key |-> line[2],
        public_key |-> line[3],
        listen_port |-> ParseU16(line[4])[1],
        fwmark |-> IF line[5] = "off" THEN << >> ELSE <<line[5]>>,
        peers |-> [k \in 1..Len(run) |-> MakePeer(run[k])]]

\* Building that literal does not panic.
InterfaceBuilds(lines, i) ==
    /\ ParseU16(lines[i][4]) # << >>
    /\ \A x \in Range(PeerLines(lines, i + 1, lines[i][1])) : PeerBuilds(x)

\* BTreeMap::insert: a present key has its value replaced.
Insert(m, k, v) == [n \in DOMAIN m \cup {k} |-> IF n = k THEN v ELSE m[n]]

EmptyMap == [n \in {} |-> DefaultInterface]

\* for (i, line) in lines.iter().enumerate(): the local map after the lines
\* from i on, starting with acc; built = FALSE when a literal panics.
RECURSIVE ParseLines(_, _, _)
ParseLines(lines, i, acc) ==
    IF i > Len(lines) THEN [built |-> TRUE, map |-> acc]
    ELSE IF Len(lines[i]) # 5 THEN ParseLines(lines, i + 1, acc)
    ELSE IF ~InterfaceBuilds(lines, i) THEN [built |-> FALSE, map |-> acc]
    ELSE ParseLines(lines, i + 1, Insert(acc, lines[i][1], MakeInterface(lines, i)))

(***************************************************************************)
(* The configuration reconciler.                                           *)
(***************************************************************************)
ConfSuffix == ".conf"

\* x.contains(".conf")
Contains(file) == \E i \in DOMAIN file : file[i] = ConfSuffix

IsConfFile(file) == Contains(file)

\* x.replace(".conf", ""): every occurrence removed, the rest joined.
RECURSIVE Replace(_)
Replace(file) ==
    IF file = << >> THEN ""
    ELSE (IF file[1] = ConfSuffix THEN "" ELSE file[1]) \o Replace(Tail(file))

\* interfaces_down: the names to insert, those not already keys.
InterfacesDown(dir, parsed) ==
    {Replace(f) : f \in {g \in dir : IsConfFile(g)}} \ DOMAIN parsed

\* for item in interfaces_down { interfaces.insert(item, Default::default()) }
Reconcile(dir, parsed) ==
    LET down == InterfacesDown(dir, parsed)
    IN [n \in DOMAIN parsed \cup down |->
            IF n \in down THEN DefaultInterface ELSE parsed[n]]

(***************************************************************************)
(* InterfacesMap::refresh as a function of what it reads: how it ends and  *)
(* the map it holds when it reaches its last line.                         *)
(***************************************************************************)
RefreshOutcome(raw, ok, dok, dir) ==
    IF ~ok THEN [end |-> "exited", map |-> EmptyMap]
    ELSE LET lines == Pop(SplitNewline(raw))
             parsed == ParseLines(lines, 1, EmptyMap)
         IN IF ~parsed.built THEN [end |-> "panicked", map |-> parsed.map]
            ELSE IF ~dok THEN [end |-> "panicked", map |-> parsed.map]
            ELSE [end |-> "running", map |-> Reconcile(dir, parsed.map)]

(***************************************************************************)
(* time_to_english.                                                        *)
(***************************************************************************)
\* The while loop: what remains of time, and the three counters.
RECURSIVE CountUnits(_, _, _, _)
CountUnits(time, days, hours, minutes) ==
    IF time >= 60
    THEN IF time >= 86400 THEN CountUnits(time - 86400, days + 1, hours, minutes)
         ELSE IF time >= 3600 THEN CountUnits(time - 3600, days, hours + 1, minutes)
         ELSE CountUnits(time - 60, days, hours, minutes + 1)
    ELSE [time |-> time, days |-> days, hours |-> hours, minutes |-> minutes]

\* The seconds component as the four `if` blocks write it.
SecondsPart(time) ==
    IF time > 0
    THEN ToString(time) \o (IF time = 1 THEN " second" ELSE " seconds")
    ELSE ""

\* A seconds component that is worded in the plural whatever its value.
SecondsPlural(time) ==
    IF time > 0 THEN ToString(time) \o " seconds" ELSE ""

SecondsText(time) == SecondsPart(time)

\* The Ok value of time_to_english; the function has no Err path.
time_to_english(time) ==
    LET c == CountUnits(time, 0, 0, 0)
        d == IF c.days > 0
             THEN ToString(c.days) \o (IF c.days = 1 THEN " day " ELSE " days ")
             ELSE ""
        h == IF c.hours > 0
             THEN ToString(c.hours) \o (IF c.hours = 1 THEN " hour " ELSE " hours ")
             ELSE ""
        m == IF c.minutes > 0
             THEN ToString(c.minutes)
                    \o (IF c.minutes = 1 THEN " minute " ELSE " minutes ")
             ELSE ""
    IN d \o h \o m \o SecondsText(c.time)

(***************************************************************************)
(* Display.  A rendering is the sequence of the pieces written to the      *)
(* formatter, the literal text of each write! and each interpolated value; *)
(* the text shown is their concatenation.                                  *)
(***************************************************************************)
\* impl fmt::Display for WgPeer, at clock reading t.  The model keeps every
\* latest_handshake at or below the clock, so the subtraction does not
\* underflow.
DisplayPeer(p, t) ==
    LET time_since == time_to_english(t - p.latest_handshake)
    IN <<"Public Key: ", p.public_key, "\n",
         "Preshared Key: ",
         IF p.preshared_key = << >> THEN "(none)" ELSE p.preshared_key[1], "\n",
         "Endpoint: ", p.endpoint, "\n",
         "Allowed Ips: ", p.allowed_ips, "\n",
         "Latest handshake: ", time_since, "\n",
         "Transfer: ", ToString(p.transfer_rx), " B recieved, ",
         ToString(p.transfer_tx), " B sent\n",
         "Persistent Keepalive: ",
         IF p.persistent_keepalive THEN "true" ELSE "false", "\n">>

RECURSIVE DisplayPeers(_, _)
DisplayPeers(peers, t) ==
    IF peers = << >> THEN << >>
    ELSE DisplayPeer(Head(peers), t) \o <<"\n">> \o DisplayPeers(Tail(peers), t)

Hidden == "(hidden)"
DownMessage == "Interface is down."

\* The private key as the else branch shows it.
ShownKey(i) == IF i.show_priv THEN i.private_key ELSE Hidden

\* A key shown whatever the flag says.
ShownKeyAlways(i) == i.private_key

PrivateKeyText(i) == ShownKey(i)

\* The else branch of the rendering: the fields and the peers.
DisplayFields(i, t) ==
    <<"Private Key: ", PrivateKeyText(i), "\n",
      "Public Key: ", i.public_key, "\n",
      "Listen Port: ", ToString(i.listen_port), "\n",
      "fwmark: ", IF i.fwmark = << >> THEN "off" ELSE i.fwmark[1], "\n",
      "----- Peers -----\n">>
    \o DisplayPeers(i.peers, t)
    \o <<" ">>

\* A rendering without the test of enabled.
DisplayNoGuard(i, t) == DisplayFields(i, t)

\* impl fmt::Display for WgInterface, at clock reading t.
DisplayInterface(i, t) ==
    IF ~i.enabled THEN <<DownMessage>> ELSE DisplayFields(i, t)

(***************************************************************************)
(* The inputs given to the program.                                        *)
(***************************************************************************)
StartTime == 200   \* clock reading at the start; no handshake is later

Header(name, priv, pub, port, fwmark) == <<name, priv, pub, port, fwmark>>

PeerLine(name, pub, psk, handshake, keepalive) ==
    <<name, pub, psk, "10.0.0.2:51820", "10.0.0.0/24", handshake, "1024", "2048",
      keepalive>>

H0 == Header("wg0", "privA", "pubA", "51820", "off")
H0again == Header("wg0", "privA2", "pubA2", "007", "0x1")
H1 == Header("wg1", "privB", "pubB", "51821", "off")
H1wide == Header("wg1", "privB", "pubB", "65536", "off")
H1text == Header("wg1", "privB", "pubB", "x", "off")
PA == PeerLine("wg0", "peerA", "(none)", "100", "on")
PB == PeerLine("wg0", "peerB", "pskB", "0", "off")
PC == PeerLine("wg1", "peerC", "(none)", "100", "off")
PbadNumber == PeerLine("wg0", "peerA", "(none)", "x", "on")
PbadKeepalive == PeerLine("wg0", "peerA", "(none)", "100", "maybe")
Pshort == <<"wg0", "peerA", "(none)">>
Blank == <<"">>

\* Lines of the dumps given to the parser alone.
Lines == {H0, H0again, H1, H1wide, PA, PB, PC, PbadNumber, PbadKeepalive, Pshort,
          Blank}

\* Lines of the dump while the registry runs.
SysLines == {H0, H1, H1text, PA, PbadNumber, PbadKeepalive}

\* File names of /etc/wireguard, by segments.
Files == {<<"wg0", ".conf">>, <<"wg1", ".conf">>, <<"wg2", ".conf", ".bak">>,
          <<"notes">>}

SysFiles == {<<"wg1", ".conf">>, <<"wg2", ".conf", ".bak">>}

Callers == 1..NumCallers

(***************************************************************************)
(* Operations on the registry.                                             *)
(***************************************************************************)
\* InterfacesMap::refresh(&mut self), whole: exit(1) on a failed command, a
\* panic from expect()/unwrap()/unreachable!()/indexing, or the stored map
\* assigned on the last line.
RefreshStore ==
    LET o == RefreshOutcome(raw_output, exit_ok, dir_ok, conf_dir)
    IN /\ proc' = o.end
       /\ interfaces' = IF o.end = "running" THEN o.map ELSE interfaces
       /\ fresh' = (o.end = "running")

\* A refresh that inserts into the stored map instead of a local one.
RefreshInPlace ==
    LET o == RefreshOutcome(raw_output, exit_ok, dir_ok, conf_dir)
    IN /\ proc' = o.end
       /\ interfaces' = [n \in DOMAIN interfaces \cup DOMAIN o.map |->
                            IF n \in DOMAIN o.map THEN o.map[n] ELSE interfaces[n]]
       /\ fresh' = (o.end = "running")

\* A refresh that extends the peers of an entry it already holds.
RefreshExtending ==
    LET o == RefreshOutcome(raw_output, exit_ok, dir_ok, conf_dir)
    IN /\ proc' = o.end
       /\ interfaces' =
            IF o.end # "running" THEN interfaces
            ELSE [n \in DOMAIN o.map |->
                    IF n \in DOMAIN interfaces
                    THEN [o.map[n] EXCEPT !.peers = interfaces[n].peers \o @]
                    ELSE o.map[n]]
       /\ fresh' = (o.end = "running")

\* A refresh that carries the show_priv of a record it already holds over to
\* the new record of the same name.
RefreshKeepingFlags ==
    LET o == RefreshOutcome(raw_output, exit_ok, dir_ok, conf_dir)
    IN /\ proc' = o.end
       /\ interfaces' =
            IF o.end # "running" THEN interfaces
            ELSE [n \in DOMAIN o.map |->
                    IF n \in DOMAIN interfaces
                    THEN [o.map[n] EXCEPT !.show_priv = interfaces[n].show_priv]
                    ELSE o.map[n]]
       /\ fresh' = (o.end = "running")

RefreshBody == RefreshStore

\* History: what a refresh that stored its map removed from the old one.
NotesDropped == dropped' = IF fresh' THEN DOMAIN interfaces \ DOMAIN interfaces' ELSE {}

\* History: the names a refresh that stored its map found with show_priv set
\* and holds again.
NotesRehidden ==
    rehidden' = IF fresh'
                THEN {n \in DOMAIN interfaces \cap DOMAIN interfaces' :
                        interfaces[n].show_priv}
                ELSE {}

Refresh ==
    /\ proc = "running"
    /\ RefreshBody
    /\ NotesDropped
    /\ NotesRehidden
    /\ UNCHANGED <<envVars, now, idemVars, lockVars, timeVars>>

\* The record after WgInterface::toggle_privkey(&mut self).
toggle_privkey(i) == [i EXCEPT !.show_priv = ~i.show_priv]

\* toggle_privkey on the record stored under name.
Toggle(name) ==
    /\ proc = "running"
    /\ name \in DOMAIN interfaces
    /\ interfaces' = [interfaces EXCEPT ![name] = toggle_privkey(@)]
    /\ fresh' = FALSE
    /\ dropped' = {}
    /\ rehidden' = {}
    /\ UNCHANGED <<envVars, proc, now, idemVars, lockVars, timeVars>>

(***************************************************************************)
(* The environment: what wg and /etc/wireguard hold changes under the      *)
(* program, which sees it at its next refresh.                             *)
(***************************************************************************)
DumpGrows(l) ==
    /\ proc = "running"
    /\ Len(raw_output) < MaxSysLines
    /\ raw_output' = Append(raw_output, l)
    /\ fresh' = FALSE
    /\ dropped' = {}
    /\ rehidden' = {}
    /\ UNCHANGED <<exit_ok, dir_ok, conf_dir, interfaces, proc, now, idemVars,
                   lockVars, timeVars>>

DumpShrinks ==
    /\ proc = "running"
    /\ raw_output # << >>
    /\ raw_output' = Tail(raw_output)
    /\ fresh' = FALSE
    /\ dropped' = {}
    /\ rehidden' = {}
    /\ UNCHANGED <<exit_ok, dir_ok, conf_dir, interfaces, proc, now, idemVars,
                   lockVars, timeVars>>

CommandFlips ==
    /\ proc = "running"
    /\ exit_ok' = ~exit_ok
    /\ fresh' = FALSE
    /\ dropped' = {}
    /\ rehidden' = {}
    /\ UNCHANGED <<raw_output, dir_ok, conf_dir, interfaces, proc, now, idemVars,
                   lockVars, timeVars>>

DirectoryFlips ==
    /\ proc = "running"
    /\ dir_ok' = ~dir_ok
    /\ fresh' = FALSE
    /\ dropped' = {}
    /\ rehidden' = {}
    /\ UNCHANGED <<raw_output, exit_ok, conf_dir, interfaces, proc, now, idemVars,
                   lockVars, timeVars>>

FileChanges(f) ==
    /\ proc = "running"
    /\ conf_dir' = IF f \in conf_dir THEN conf_dir \ {f} ELSE conf_dir \cup {f}
    /\ fresh' = FALSE
    /\ dropped' = {}
    /\ rehidden' = {}
    /\ UNCHANGED <<raw_output, exit_ok, dir_ok, interfaces, proc, now, idemVars,
                   lockVars, timeVars>>

\* The values the variables of the other specifications keep.
IdleIdem == phase = 0 /\ out1 = << >> /\ out2 = << >>
IdleLock == /\ rw = [writer |-> FALSE, readers |-> 0]
            /\ pc = [c \in Callers |-> "idle"]
            /\ building = [c \in Callers |-> EmptyMap]
IdleTime == time_in = 0 /\ english = << >>

\* static INTERFACES: RwLock::new(InterfacesMap { interfaces: BTreeMap::new() })
Init ==
    /\ raw_output = << >>
    /\ exit_ok = TRUE
    /\ dir_ok = TRUE
    /\ conf_dir = {}
    /\ interfaces = EmptyMap
    /\ proc = "running"
    /\ fresh = FALSE
    /\ dropped = {}
    /\ rehidden = {}
    /\ now = StartTime
    /\ IdleIdem /\ IdleLock /\ IdleTime

Next ==
    \/ Refresh
    \/ \E name \in DOMAIN interfaces : Toggle(name)
    \/ \E l \in SysLines : DumpGrows(l)
    \/ DumpShrinks
    \/ CommandFlips
    \/ DirectoryFlips
    \/ \E f \in SysFiles : FileChanges(f)

Spec == Init /\ [][Next]_vars

(***************************************************************************)
(* The parser and the reconciler on every input: one refresh of a new      *)
(* registry.                                                               *)
(***************************************************************************)
InitParse ==
    /\ raw_output \in SeqsUpTo(Lines, MaxLines)
    /\ exit_ok \in BOOLEAN
    /\ dir_ok \in BOOLEAN
    /\ conf_dir \in IF dir_ok THEN SUBSET Files ELSE {{}}
    /\ interfaces = EmptyMap
    /\ proc = "running"
    /\ fresh = FALSE
    /\ dropped = {}
    /\ rehidden = {}
    /\ now = StartTime
    /\ IdleIdem /\ IdleLock /\ IdleTime

NextParse == ~fresh /\ Refresh

SpecParse == InitParse /\ [][NextParse]_vars

(***************************************************************************)
(* What the claims speak of, stated on the dump and the directory          *)
(* themselves.                                                             *)
(***************************************************************************)
\* The positions of the header lines of a dump, and the names they carry.
HeaderPositions(lines) == {i \in DOMAIN lines : Len(lines[i]) = 5}
HeaderNames(lines) == {lines[i][1] : i \in HeaderPositions(lines)}

\* The position of the last header line that carries name.
LastHeader(lines, name) ==
    CHOOSE i \in HeaderPositions(lines) :
        /\ lines[i][1] = name
        /\ \A j \in HeaderPositions(lines) : lines[j][1] = name => j <= i

\* How many lines directly after position i carry name as their first field.
RunLength(lines, i, name) ==
    CHOOSE k \in 0..(Len(lines) - i) :
        /\ \A m \in 1..k : lines[i + m][1] = name
        /\ (i + k < Len(lines) => lines[i + k + 1][1] # name)

\* Peer p holds the text fields of line x.
PeerFromLine(p, x) ==
    /\ p.public_key = x[2]
    /\ p.preshared_key = (IF x[3] = "(none)" THEN << >> ELSE <<x[3]>>)
    /\ p.endpoint = x[4]
    /\ p.allowed_ips = x[5]
    /\ p.persistent_keepalive = (x[9] = "on")

Enabled(map) == {n \in DOMAIN map : map[n].enabled}
Disabled(map) == {n \in DOMAIN map : ~map[n].enabled}

\* C1: after a successful refresh the peers of every enabled interface are
\* exactly the lines of the contiguous run that directly follows its header
\* line (the last header of that name) and carry its name, in source order,
\* none being taken from a line of another name; and there are as many
\* enabled entries as distinct header names.
C1_PeersAreTheRun ==
    fresh =>
        /\ \A n \in Enabled(interfaces) :
            /\ n \in HeaderNames(raw_output)
            /\ LET i == LastHeader(raw_output, n)
                   k == RunLength(raw_output, i, n)
                   peers == interfaces[n].peers
               IN /\ Len(peers) = k
                  /\ \A m \in 1..k :
                        /\ raw_output[i + m][1] = n
                        /\ PeerFromLine(peers[m], raw_output[i + m])
        /\ Cardinality(Enabled(interfaces)) = Cardinality(HeaderNames(raw_output))

\* C1 witness: a dump with two headers, the first followed by a peer line of
\* its own and then by the header of the other, has been refreshed.
C1_Witness ==
    /\ fresh
    /\ Len(raw_output) = 3
    /\ Len(raw_output[1]) = 5 /\ Len(raw_output[2]) = 9 /\ Len(raw_output[3]) = 5
    /\ raw_output[1][1] # raw_output[3][1]
    /\ Len(interfaces[raw_output[1][1]].peers) = 1
    /\ interfaces[raw_output[3][1]].peers = << >>

\* A file name ends in the suffix.
EndsWith(file) == file # << >> /\ file[Len(file)] = ConfSuffix

\* The base name of a file name that ends in the suffix: the suffix stripped.
RECURSIVE Join(_)
Join(segments) == IF segments = << >> THEN ""
                  ELSE segments[1] \o Join(Tail(segments))
BaseName(file) == Join(SubSeq(file, 1, Len(file) - 1))

\* C2: after a successful refresh an entry is enabled iff its name is a
\* header name of the dump, and the disabled entries are exactly the base
\* names of the files that end in the suffix and are no header name, each
\* holding the default record.
C2_ReconciledBySuffix ==
    fresh =>
        /\ \A n \in DOMAIN interfaces :
                interfaces[n].enabled <=> n \in HeaderNames(raw_output)
        /\ Disabled(interfaces) =
                {BaseName(f) : f \in {g \in conf_dir : EndsWith(g)}}
                    \ HeaderNames(raw_output)
        /\ \A n \in Disabled(interfaces) : interfaces[n] = DefaultInterface

\* A line of the dump that makes the parser panic: a header whose port is
\* no u16, or a line of the run after a header that lacks a field, holds a
\* counter that is no number, or a keepalive that is neither "on" nor "off".
BadHeader(lines, i) == ParseU16(lines[i][4]) = << >>
BadPeer(x) ==
    \/ Len(x) < 9
    \/ \E f \in 6..8 : x[f] \notin DOMAIN Decimal
    \/ x[9] \notin {"on", "off"}
DumpIsBad(lines) ==
    \E i \in HeaderPositions(lines) :
        \/ BadHeader(lines, i)
        \/ \E m \in 1..RunLength(lines, i, lines[i][1]) : BadPeer(lines[i + m])

\* C3: a refresh that fails (the command exits non-zero, a numeric field
\* does not parse, a keepalive is neither "on" nor "off", the directory
\* cannot be read) leaves the stored map as it was; only a refresh with none
\* of these failures stores a map.
C3_FailedRefreshKeepsMap ==
    /\ [][proc' # "running" => interfaces' = interfaces]_vars
    /\ [][fresh' => (exit_ok /\ dir_ok /\ ~DumpIsBad(raw_output))]_vars
    /\ [][(proc = "running" /\ proc' = "running" /\ ~fresh'
            /\ interfaces' # interfaces)
          => \E n \in DOMAIN interfaces :
                interfaces' = [interfaces EXCEPT ![n] = toggle_privkey(@)]]_vars

\* C3 witness: the program has died in a refresh while holding a map with an
\* enabled interface, and the dump it read had a bad line.
C3_Witness ==
    /\ proc = "panicked"
    /\ Enabled(interfaces) # {}
    /\ exit_ok /\ dir_ok /\ DumpIsBad(raw_output)

Pieces(rendering) == Range(rendering)

\* The private key is redacted in, or shown by, the rendering of a record.
Redacted(i, t) ==
    LET r == DisplayInterface(i, t)
    IN r[2] = Hidden /\ i.private_key \notin Pieces(r)
Revealed(i, t) ==
    LET r == DisplayInterface(i, t)
    IN r[2] = i.private_key

Clock == StartTime..(StartTime + MaxTicks)

ConfiguredNames(dir) == {Replace(f) : f \in {g \in dir : Contains(g)}}

\* The record refresh builds for name from the dump alone.
FromDump(lines, name, rec) ==
    LET i == LastHeader(lines, name)
        k == RunLength(lines, i, name)
    IN /\ rec.enabled /\ ~rec.show_priv
       /\ rec.private_key = lines[i][2]
       /\ rec.public_key = lines[i][3]
       /\ <<rec.listen_port>> = ParseU16(lines[i][4])
       /\ rec.fwmark = (IF lines[i][5] = "off" THEN << >> ELSE <<lines[i][5]>>)
       /\ Len(rec.peers) = k
       /\ \A m \in 1..k : PeerFromLine(rec.peers[m], lines[i + m])

AllDefault(rec) ==
    /\ ~rec.enabled /\ ~rec.show_priv
    /\ rec.private_key = "" /\ rec.public_key = "" /\ rec.listen_port = 0
    /\ rec.fwmark = << >> /\ rec.peers = << >>

\* C5: after every successful refresh the keys are exactly the header names
\* of the current dump and the configured names that are no header name, and
\* every record is the one the current dump and directory give: nothing of a
\* prior record survives.
C5_RefreshReplaces ==
    fresh =>
        /\ DOMAIN interfaces =
            HeaderNames(raw_output)
                \cup (ConfiguredNames(conf_dir) \ HeaderNames(raw_output))
        /\ \A n \in DOMAIN interfaces :
            IF n \in HeaderNames(raw_output)
            THEN FromDump(raw_output, n, interfaces[n])
            ELSE AllDefault(interfaces[n])

C5_Witness ==
    /\ fresh
    /\ dropped # {}
    /\ Enabled(interfaces) # {} /\ Disabled(interfaces) # {}

\* C11: right after every refresh that stored its map, every record has
\* show_priv false and every enabled one renders its private key redacted,
\* whatever toggles came before; and from then on a record's show_priv turns
\* true only in a step that is toggle_privkey on that record, so a key a
\* toggle revealed is redacted by the next refresh until a later toggle.
C11_RefreshRedacts ==
    /\ [](fresh =>
            \A n \in DOMAIN interfaces :
                /\ ~interfaces[n].show_priv
                /\ interfaces[n].enabled =>
                        \A t \in Clock : Redacted(interfaces[n], t))
    /\ [][\A n \in DOMAIN interfaces' :
            (/\ interfaces'[n].show_priv
             /\ ~(n \in DOMAIN interfaces /\ interfaces[n].show_priv))
            => /\ ~fresh'
               /\ n \in DOMAIN interfaces
               /\ interfaces' = [interfaces EXCEPT ![n] = toggle_privkey(@)]]_vars

\* C11 witness: a refresh has stored a map holding an enabled interface whose
\* key a toggle had revealed before it, and the key is redacted again.
C11_Witness ==
    /\ fresh
    /\ \E n \in rehidden \cap Enabled(interfaces) :
            ~interfaces[n].show_priv /\ Redacted(interfaces[n], now)

(***************************************************************************)
(* time_to_english on every input of the bounded set.                      *)
(***************************************************************************)
Units == 0..MaxUnit
TimeInputs ==
    {d * 86400 + h * 3600 + m * 60 + sec :
        d \in Units, h \in Units, m \in Units, sec \in Units \cup {59}}

InitTime ==
    /\ time_in \in TimeInputs
    /\ english = << >>
    /\ raw_output = << >> /\ exit_ok = TRUE /\ dir_ok = TRUE /\ conf_dir = {}
    /\ interfaces = EmptyMap /\ proc = "running" /\ fresh = FALSE /\ dropped = {}
    /\ rehidden = {}
    /\ now = StartTime
    /\ IdleIdem /\ IdleLock

\* let time_since = time_to_english(time_since)?;
Format ==
    /\ english = << >>
    /\ english' = <<time_to_english(time_in)>>
    /\ UNCHANGED <<time_in, envVars, interfaces, proc, fresh, dropped, rehidden, now, idemVars,
                   lockVars>>

NextTime == Format

SpecTime == InitTime /\ [][NextTime]_vars

\* C7: the formatter applied to 0 seconds returns "0 seconds", never the
\* empty phrase.
C7_ZeroIsZeroSeconds ==
    (english # << >> /\ time_in = 0) => english[1] = "0 seconds"

\* One component of the phrase: nothing for 0, the singular for 1.
Component(n, singular, plural) ==
    IF n = 0 THEN ""
    ELSE ToString(n) \o (IF n = 1 THEN singular ELSE plural)

\* C8: for s >= 1 the phrase is the concatenation, largest unit first, of
\* the components days = s div 86400, hours = (s mod 86400) div 3600,
\* minutes = (s mod 3600) div 60, seconds = s mod 60, a zero component being
\* omitted, each worded in the singular exactly when it is 1, with a
\* trailing space after days, hours and minutes and none after seconds.
C8_Decomposition ==
    (english # << >> /\ time_in >= 1) =>
        /\ english[1] =
               Component(time_in \div 86400, " day ", " days ")
            \o Component((time_in % 86400) \div 3600, " hour ", " hours ")
            \o Component((time_in % 3600) \div 60, " minute ", " minutes ")
            \o Component(time_in % 60, " second", " seconds")
        /\ (time_in = 59 => english[1] = "59 seconds")
        /\ (time_in = 60 => english[1] = "1 minute ")
        /\ (time_in = 3661 => english[1] = "1 hour 1 minute 1 second")

\* C8 witness: a time with a singular and a plural component has been
\* formatted.
C8_Witness ==
    /\ english # << >>
    /\ time_in = 2 * 86400 + 3600 + 59

(***************************************************************************)
(* Two refreshes in succession of an unchanged environment, every          *)
(* interface rendered after each, while the clock runs.                    *)
(***************************************************************************)
InitIdem ==
    /\ raw_output \in SeqsUpTo(SysLines, MaxSysLines)
    /\ exit_ok \in BOOLEAN
    /\ dir_ok \in BOOLEAN
    /\ conf_dir \in IF dir_ok THEN SUBSET SysFiles ELSE {{}}
    /\ interfaces = EmptyMap
    /\ proc = "running"
    /\ fresh = FALSE
    /\ dropped = {}
    /\ rehidden = {}
    /\ now = StartTime
    /\ IdleIdem /\ IdleLock /\ IdleTime

\* INTERFACES.write().refresh(), the first and the second time.
IdemRefresh ==
    /\ proc = "running"
    /\ phase \in {0, 2}
    /\ RefreshBody
    /\ NotesDropped
    /\ NotesRehidden
    /\ phase' = phase + 1
    /\ UNCHANGED <<envVars, now, out1, out2, lockVars, timeVars>>

\* format!("{}", INTERFACES.read().interfaces.get(item).unwrap()) for every
\* item of the list, at the present clock reading.
Rendered ==
    [at |-> now,
     map |-> interfaces,
     text |-> [n \in DOMAIN interfaces |-> DisplayInterface(interfaces[n], now)]]

IdemRender ==
    /\ proc = "running"
    /\ phase \in {1, 3}
    /\ out1' = IF phase = 1 THEN <<Rendered>> ELSE out1
    /\ out2' = IF phase = 3 THEN <<Rendered>> ELSE out2
    /\ phase' = phase + 1
    /\ UNCHANGED <<envVars, interfaces, proc, fresh, dropped, rehidden, now, lockVars,
                   timeVars>>

\* SystemTime::now() advances.
Tick ==
    /\ proc = "running"
    /\ now < StartTime + MaxTicks
    /\ now' = now + 1
    /\ UNCHANGED <<envVars, interfaces, proc, fresh, dropped, rehidden, idemVars, lockVars,
                   timeVars>>

NextIdem == IdemRefresh \/ IdemRender \/ Tick

SpecIdem == InitIdem /\ [][NextIdem]_vars

\* C10 as stated: after two refreshes of an unchanged environment the
\* rendering of every interface name is the same after the first and after
\* the second.
C10_SameRendering ==
    phase = 4 => out1[1].text = out2[1].text

\* C10 amended: after two refreshes of an unchanged environment the stored
\* map is the same after the first and after the second; the rendering of a
\* name is the same when both renderings are made at the same clock reading,
\* and at any clock reading when the interface has no peers.
C10_SameMap ==
    phase = 4 =>
        /\ out1[1].map = out2[1].map
        /\ DOMAIN out1[1].text = DOMAIN out2[1].text
        /\ \A n \in DOMAIN out1[1].text :
            (out1[1].at = out2[1].at \/ out1[1].map[n].peers = << >>)
                => out1[1].text[n] = out2[1].text[n]

\* C10 witness: both renderings are made, of an interface with a peer, the
\* clock having advanced between them.
C10_Witness ==
    /\ phase = 4
    /\ out1[1].at < out2[1].at
    /\ \E n \in DOMAIN out2[1].map : out2[1].map[n].peers # << >>

(***************************************************************************)
(* The RwLock around INTERFACES, with several callers.  Each handler is    *)
(* split where it takes and where it drops its guard, and refresh where it *)
(* has built its local map and where it stores it.                         *)
(***************************************************************************)
InitRW ==
    /\ raw_output \in SeqsUpTo(SysLines, MaxSysLines)
    /\ exit_ok \in BOOLEAN
    /\ dir_ok \in BOOLEAN
    /\ conf_dir \in IF dir_ok THEN SUBSET SysFiles ELSE {{}}
    /\ interfaces = EmptyMap
    /\ proc = "running"
    /\ fresh = FALSE
    /\ dropped = {}
    /\ rehidden = {}
    /\ now = StartTime
    /\ IdleIdem /\ IdleLock /\ IdleTime

\* A write() that waits for the writer alone.
CanWriteBesideReaders == ~rw.writer

\* RwLock::write() returns: no guard of either kind is out.
CanWrite == ~rw.writer /\ rw.readers = 0

\* RwLock::read() returns: no write guard is out.
CanRead == ~rw.writer

\* INTERFACES.write() of main, then the first line of refresh.
WriteLock(c) ==
    /\ proc = "running"
    /\ pc[c] = "idle"
    /\ CanWrite
    /\ rw' = [rw EXCEPT !.writer = TRUE]
    /\ pc' = [pc EXCEPT ![c] = "refresh"]
    /\ building' = [building EXCEPT ![c] = EmptyMap]
    /\ UNCHANGED <<envVars, interfaces, proc, fresh, dropped, rehidden, now, idemVars, timeVars>>

\* refresh from the command to the end of the for loop over the lines.
RefreshParse(c) ==
    /\ proc = "running"
    /\ pc[c] = "refresh"
    /\ LET parsed == ParseLines(Pop(SplitNewline(raw_output)), 1, EmptyMap)
       IN /\ proc' = IF ~exit_ok THEN "exited"
                     ELSE IF ~parsed.built THEN "panicked" ELSE "running"
          /\ building' = [building EXCEPT
                            ![c] = IF exit_ok THEN parsed.map ELSE @]
    /\ pc' = [pc EXCEPT ![c] = "parsed"]
    /\ UNCHANGED <<envVars, interfaces, fresh, dropped, rehidden, now, idemVars, rw, timeVars>>

\* refresh from read_dir to self.interfaces = interfaces.
RefreshStoreStep(c) ==
    /\ proc = "running"
    /\ pc[c] = "parsed"
    /\ proc' = IF dir_ok THEN "running" ELSE "panicked"
    /\ interfaces' = IF dir_ok THEN Reconcile(conf_dir, building[c]) ELSE interfaces
    /\ fresh' = dir_ok
    /\ NotesDropped
    /\ NotesRehidden
    /\ pc' = [pc EXCEPT ![c] = "stored"]
    /\ UNCHANGED <<envVars, now, idemVars, rw, building, timeVars>>

\* The write guard, a temporary of the statement, is dropped.
WriteUnlock(c) ==
    /\ proc = "running"
    /\ pc[c] = "stored"
    /\ rw' = [rw EXCEPT !.writer = FALSE]
    /\ pc' = [pc EXCEPT ![c] = "idle"]
    /\ UNCHANGED <<envVars, interfaces, proc, fresh, dropped, rehidden, now, idemVars, building,
                   timeVars>>

\* INTERFACES.read() of list_connections (the keys), of its on_select
\* closure (a rendering) and of show_details (a rendering).
Readers == {"list_connections", "on_select", "show_details"}

ReadLock(c, handler) ==
    /\ proc = "running"
    /\ pc[c] = "idle"
    /\ CanRead
    /\ rw' = [rw EXCEPT !.readers = @ + 1]
    /\ pc' = [pc EXCEPT ![c] = handler]
    /\ UNCHANGED <<envVars, interfaces, proc, fresh, dropped, rehidden, now, idemVars, building,
                   timeVars>>

\* The read guard is dropped: at the end of the statement, or of
\* show_details.
ReadUnlock(c) ==
    /\ proc = "running"
    /\ pc[c] \in Readers
    /\ rw' = [rw EXCEPT !.readers = @ - 1]
    /\ pc' = [pc EXCEPT ![c] = "idle"]
    /\ UNCHANGED <<envVars, interfaces, proc, fresh, dropped, rehidden, now, idemVars, building,
                   timeVars>>

NextRW ==
    \E c \in Callers :
        \/ WriteLock(c)
        \/ RefreshParse(c)
        \/ RefreshStoreStep(c)
        \/ WriteUnlock(c)
        \/ \E handler \in Readers : ReadLock(c, handler)
        \/ ReadUnlock(c)

SpecRW == InitRW /\ [][NextRW]_vars

Writing(c) == pc[c] \in {"refresh", "parsed", "stored"}
Reading(c) == pc[c] \in Readers

\* C6: in no reachable state does a caller hold the registry for a refresh
\* while another holds it for a rendering or a listing, nor do two callers
\* hold it for a refresh; readers may hold it together; and while a reader
\* holds it the stored map is a whole one, the empty map of the start or the
\* map a complete refresh gives, never the local map a refresh is building.
C6_ReaderWriterDiscipline ==
    /\ \A c, d \in Callers :
        /\ ~(Writing(c) /\ Reading(d))
        /\ (Writing(c) /\ Writing(d)) => c = d
    /\ rw.writer = (\E c \in Callers : Writing(c))
    /\ rw.readers = Cardinality({c \in Callers : Reading(c)})
    /\ (\E c \in Callers : Reading(c)) =>
            interfaces \in
                {EmptyMap, RefreshOutcome(raw_output, exit_ok, dir_ok, conf_dir).map}

\* C6 witness: all callers hold the registry as readers at once, after a
\* refresh stored a map with an entry.
C6_Witness ==
    /\ \A c \in Callers : Reading(c)
    /\ interfaces # EmptyMap

====
